---- MODULE Spec2Model ----
(***************************************************************************)
(* A model of "Assignment 2/visualization_utils.py": the reporting module  *)
(* of the DQN/DDQN assignment.  The state is what the functions act on:    *)
(* the file system (directories and files), pyplot's stack of open         *)
(* figures, and standard output.  Each function is one action.             *)
(*                                                                         *)
(* Numbers.  Rewards, losses and means are integers here; a value the code *)
(* obtains by dividing (a moving average, a mean, the improvement) is kept *)
(* exactly, as a numerator over a denominator.  Binary floating point      *)
(* rounding is not modelled.                                               *)
(*                                                                         *)
(* Strings that end up in paths are kept split at "/": the sequence        *)
(* <<"ALE", "Pong">> is the string "ALE/Pong", <<"plots">> is "plots".     *)
(***************************************************************************)
EXTENDS Integers, Sequences, FiniteSets, TLC

VARIABLES
    dirs,       \* the directories that exist, as paths below the working directory
    files,      \* the files that exist: path -> content (a sequence of chunks)
    figs,       \* pyplot's open figures, the current figure last
    stdout,     \* the lines printed so far
    last,       \* the most recent call: function, arguments, outcome, return value
    budget,     \* calls the caller still makes
    writer,     \* history: path -> the latest successful call that targeted it
    allOk,      \* history: every call so far returned normally
    files0,     \* history: the files before the first call
    proc        \* the two independent processes of the race specification

vars == <<dirs, files, figs, stdout, last, budget, writer, allOk, files0, proc>>

(***************************************************************************)
(* Bounds of the model.                                                    *)
(***************************************************************************)
MaxLen == 53        \* longest reward / loss sequence
MaxCalls == 2       \* calls in one run of the sequential specification
MaxEnvs == 2        \* environments in a results mapping
MaxEarlyFlushes == 1 \* times a process's buffer fills before its file is closed

(***************************************************************************)
(* Small helpers.                                                          *)
(***************************************************************************)
Abs(x) == IF x < 0 THEN -x ELSE x

Range(a, b) == [i \in 1..(IF b > a THEN b - a ELSE 0) |-> a + i - 1]

RECURSIVE SumSeq(_)
SumSeq(s) == IF s = <<>> THEN 0 ELSE s[1] + SumSeq(Tail(s))

None == [none |-> TRUE]

(***************************************************************************)
(* Strings split at "/".  SCat is string concatenation, Lit a literal      *)
(* without a separator, Slash the literal "/".                             *)
(***************************************************************************)
Lit(s) == <<s>>

Slash == <<"", "">>

SCat(a, b) ==
    SubSeq(a, 1, Len(a) - 1) \o <<a[Len(a)] \o b[1]>> \o SubSeq(b, 2, Len(b))

RECURSIVE Str(_)
Str(a) == IF Len(a) = 1 THEN a[1] ELSE a[1] \o "/" \o Str(Tail(a))

\* The path a string names: its components, empty ones skipped.
PathOf(a) == SelectSeq(a, LAMBDA c : c # "")

Parent(p) == SubSeq(p, 1, Len(p) - 1)

IsDir(ds, p) == p = <<>> \/ p \in ds

Exists(ds, fs, p) == IsDir(ds, p) \/ p \in DOMAIN fs

(***************************************************************************)
(* numpy.                                                                  *)
(***************************************************************************)
\* np.ones(n) / n: n weights of 1/n, kept as numerators over the denominator n.
UniformKernel(n) == [num |-> [i \in 1..n |-> 1], den |-> n]

\* Element k (from 0) of the full discrete convolution of a and v.
RECURSIVE ConvTerm(_, _, _, _)
ConvTerm(a, v, k, j) ==
    IF j > Len(a) THEN 0
    ELSE (IF k - (j - 1) >= 0 /\ k - (j - 1) < Len(v)
          THEN a[j] * v[k - (j - 1) + 1] ELSE 0) + ConvTerm(a, v, k, j + 1)

\* A faulty variant of ConvolveValid, mode 'same' in place of 'valid': C1 is
\* tested against it.
ConvolveSame(a, v) ==
    IF Len(a) = 0 \/ Len(v) = 0 THEN [err |-> "ValueError", out |-> <<>>]
    ELSE LET lo == IF Len(a) >= Len(v) THEN a ELSE v
             sh == IF Len(a) >= Len(v) THEN v ELSE a
         IN  [err |-> "none",
              out |-> [i \in 1..Len(lo) |->
                          ConvTerm(lo, sh, (Len(sh) - 1) \div 2 + i - 1, 1)]]

\* np.convolve(a, v, mode='valid') on integer sequences: the arguments are
\* swapped when v is the longer one, an empty argument is a ValueError, and
\* the result holds the positions where the two overlap completely.
ConvolveValid(a, v) ==
    IF Len(a) = 0 \/ Len(v) = 0 THEN [err |-> "ValueError", out |-> <<>>]
    ELSE LET lo == IF Len(a) >= Len(v) THEN a ELSE v
             sh == IF Len(a) >= Len(v) THEN v ELSE a
         IN  [err |-> "none",
              out |-> [i \in 1..(Len(lo) - Len(sh) + 1) |->
                          ConvTerm(lo, sh, Len(sh) - 1 + i - 1, 1)]]

\* np.convolve(x, np.ones(window)/window, mode='valid')
Smooth(x, w) ==
    LET k == UniformKernel(w)
        c == ConvolveValid(x, k.num)
    IN  [err |-> c.err, num |-> c.out, den |-> k.den]

\* np.mean: the sum over the count (nan for an empty sequence)
np_mean(x) == IF Len(x) = 0 THEN [nan |-> TRUE] ELSE [num |-> SumSeq(x), den |-> Len(x)]

\* np.std: the population standard deviation, kept as its square
\* (the mean of the squared deviations), scaled to one denominator
np_std(x) ==
    IF Len(x) = 0 THEN [nan |-> TRUE]
    ELSE [sqrt_num |-> SumSeq([i \in 1..Len(x) |->
                                (Len(x) * x[i] - SumSeq(x)) * (Len(x) * x[i] - SumSeq(x))]),
          sqrt_den |-> Len(x) * Len(x) * Len(x)]

(***************************************************************************)
(* The file system: os.makedirs and opening a file for writing.            *)
(***************************************************************************)
Prefixes(p) == {SubSeq(p, 1, n) : n \in 1..Len(p)}

\* A faulty variant of Makedirs, os.mkdir in place of os.makedirs(...,
\* exist_ok=True): an existing directory is an error and no parent is created.
\* C4 is tested against it.
MkdirOnly(ds, fs, s) ==
    LET p == PathOf(s) IN
    IF p = <<>> THEN [err |-> "FileNotFoundError", dirs |-> ds]
    ELSE IF p \in DOMAIN fs \/ p \in ds THEN [err |-> "FileExistsError", dirs |-> ds]
    ELSE IF ~IsDir(ds, Parent(p)) THEN [err |-> "FileNotFoundError", dirs |-> ds]
    ELSE [err |-> "none", dirs |-> ds \cup {p}]

\* os.makedirs(p, exist_ok=True): every missing directory on the way is
\* created; a file in the way fails the call and nothing is created.
Makedirs(ds, fs, s) ==
    LET p == PathOf(s) IN
    IF p = <<>> THEN [err |-> "FileNotFoundError", dirs |-> ds]
    ELSE IF p \in DOMAIN fs THEN [err |-> "FileExistsError", dirs |-> ds]
    ELSE IF \E q \in Prefixes(p) : q \in DOMAIN fs
         THEN [err |-> "NotADirectoryError", dirs |-> ds]
    ELSE [err |-> "none", dirs |-> ds \cup Prefixes(p)]

\* What open(path, 'w') or 'wb' answers: the directory of the path must exist,
\* and the path must not be a directory.
OpenError(ds, fs, p) ==
    IF p = <<>> \/ p \in ds THEN "IsADirectoryError"
    ELSE IF Parent(p) \in DOMAIN fs THEN "NotADirectoryError"
    ELSE IF ~IsDir(ds, Parent(p)) THEN "FileNotFoundError"
    ELSE "none"

\* A faulty variant of Truncate, a file kept as it was on open (mode 'r+' in
\* place of 'w'): C7 is tested against it.
KeepOnOpen(fs, p) == IF p \in DOMAIN fs THEN fs ELSE fs @@ (p :> <<>>)

\* open(path, 'w'): the file is created, or emptied when it exists.
Truncate(fs, p) == [q \in DOMAIN fs \cup {p} |-> IF q = p THEN <<>> ELSE fs[q]]

\* Writing data at offset off (counted in chunks) of the file p; a gap left
\* by a truncation is filled with zeros.
WriteAt(fs, p, off, data) ==
    LET old == fs[p]
        gap == [i \in 1..(IF off > Len(old) THEN off - Len(old) ELSE 0) |-> [zero |-> TRUE]]
        head == SubSeq(old, 1, IF off > Len(old) THEN Len(old) ELSE off) \o gap
        rest == SubSeq(old, off + Len(data) + 1, Len(old))
    IN  [fs EXCEPT ![p] = head \o data \o rest]

(***************************************************************************)
(* Program constants.                                                      *)
(***************************************************************************)
window == 50

colors == <<"#1f77b4", "#ff7f0e", "#2ca02c", "#d62728">>

(***************************************************************************)
(* pyplot: the open figures form a stack whose top is the current figure.  *)
(* A figure is the sequence of its axes; an axes holds what was drawn.     *)
(***************************************************************************)
NewAxes == [artists |-> <<>>, xlabel |-> "", ylabel |-> "", title |-> "",
            yscale |-> "linear", xticklabels |-> <<>>, legend |-> FALSE]

\* plt.subplots(1, n): a new figure with n axes, which becomes the current one
Subplots(fg, n) == Append(fg, [i \in 1..n |-> NewAxes])

\* plt.gcf(): the current figure
Gcf(fg) == fg[Len(fg)]

\* plt.close(): the current figure is closed
PltClose(fg) == SubSeq(fg, 1, Len(fg) - 1)

Exact(y) == [num |-> y, den |-> 1]

\* ax.plot(x, y, ...): x and y must be equally long
AxPlot(ax, x, y, color, label) ==
    IF Len(x) # Len(y.num) THEN [err |-> "ValueError", ax |-> ax]
    ELSE [err |-> "none",
          ax |-> [ax EXCEPT !.artists =
                     Append(@, [type |-> "line", x |-> x, y |-> y,
                                color |-> color, label |-> label])]]

\* ax.plot(y, ...): y against 0 .. len(y)-1
AxPlotY(ax, y, color, label) == AxPlot(ax, Range(0, Len(y.num)), y, color, label).ax

Draw(ax, artist) == [ax EXCEPT !.artists = Append(@, artist)]

Labels(ax, xl, yl, t) == [ax EXCEPT !.xlabel = xl, !.ylabel = yl, !.title = t]

\* plt.savefig(fname): the current figure is rendered and written to fname,
\* replacing what the file held.
Savefig(ds, fs, fg, s) ==
    LET p == PathOf(s)
        e == OpenError(ds, fs, p)
    IN  IF e # "none" THEN [err |-> e, files |-> fs]
        ELSE [err |-> "none",
              files |-> WriteAt(Truncate(fs, p), p, 0, <<[png |-> Gcf(fg)]>>)]

\* What a function leaves behind: the exception it ended with ("none" when it
\* returned), the file system, the open figures, what it printed and returned.
Outcome(e, ds, fs, fg, out, r) ==
    [err |-> e, dirs |-> ds, files |-> fs, figs |-> fg, printed |-> out, ret |-> r]

(***************************************************************************)
(* plot_training_comparison                                                *)
(***************************************************************************)
TrainingComparisonFile(save_dir, env_name) ==
    SCat(save_dir, SCat(Slash, SCat(env_name, Lit("_training_comparison.png"))))

plot_training_comparison(ds, fs, fg, dqn_rewards, ddqn_rewards, env_name, save_dir) ==
    LET mk == Makedirs(ds, fs, save_dir)
        fg1 == Subplots(fg, 1)
        dqn_smooth == Smooth(dqn_rewards, window)
        ddqn_smooth == Smooth(ddqn_rewards, window)
        ax1 == AxPlotY(NewAxes, Exact(dqn_rewards), colors[1], "DQN (raw)")
        ax2 == AxPlotY(ax1, [num |-> dqn_smooth.num, den |-> dqn_smooth.den],
                       colors[1], "DQN (smoothed)")
        ax3 == AxPlotY(ax2, Exact(ddqn_rewards), colors[2], "DDQN (raw)")
        ax4 == AxPlotY(ax3, [num |-> ddqn_smooth.num, den |-> ddqn_smooth.den],
                       colors[2], "DDQN (smoothed)")
        ax5 == [Labels(ax4, "Episode", "Reward", "Training Curves: " \o Str(env_name))
                    EXCEPT !.legend = TRUE]
        fg2 == [fg1 EXCEPT ![Len(fg1)] = <<ax5>>]
        sv == Savefig(mk.dirs, fs, fg2, TrainingComparisonFile(save_dir, env_name))
    IN  IF mk.err # "none" THEN Outcome(mk.err, ds, fs, fg, <<>>, None)
        ELSE IF dqn_smooth.err # "none"
             THEN Outcome(dqn_smooth.err, mk.dirs, fs, fg1, <<>>, None)
        ELSE IF ddqn_smooth.err # "none"
             THEN Outcome(ddqn_smooth.err, mk.dirs, fs, fg1, <<>>, None)
        ELSE IF sv.err # "none" THEN Outcome(sv.err, mk.dirs, fs, fg2, <<>>, None)
        ELSE Outcome("none", mk.dirs, sv.files, PltClose(fg2), <<>>, None)

(***************************************************************************)
(* plot_loss_curves                                                        *)
(***************************************************************************)
LossFile(save_dir, env_name, algo_name) ==
    SCat(save_dir, SCat(Slash, SCat(env_name, SCat(Lit("_"),
         SCat(algo_name, Lit("_loss.png"))))))

\* A faulty variant of LongerThanWindow, >= in place of >: C6 is tested
\* against it.
LongerOrEqualWindow(losses) == Len(losses) >= window

\* the condition under which plot_loss_curves smooths
LongerThanWindow(losses) == Len(losses) > window

plot_loss_curves(ds, fs, fg, losses, env_name, algo_name, save_dir) ==
    LET mk == Makedirs(ds, fs, save_dir)
        fg1 == Subplots(fg, 1)
        smoothed == Smooth(losses, window)
        axr == AxPlotY(NewAxes, Exact(losses), colors[4], "Loss (raw)")
        axs == AxPlot(axr, Range(window - 1, Len(losses)),
                      [num |-> smoothed.num, den |-> smoothed.den],
                      colors[4], "Loss (smoothed)")
        axu == AxPlotY(NewAxes, Exact(losses), colors[4], "Loss")
        drawn == IF LongerThanWindow(losses) THEN axs.ax ELSE axu
        ax5 == [Labels(drawn, "Episode", "Loss",
                       Str(algo_name) \o " Training Loss: " \o Str(env_name))
                    EXCEPT !.legend = TRUE, !.yscale = "log"]
        fg2 == [fg1 EXCEPT ![Len(fg1)] = <<ax5>>]
        sv == Savefig(mk.dirs, fs, fg2, LossFile(save_dir, env_name, algo_name))
    IN  IF mk.err # "none" THEN Outcome(mk.err, ds, fs, fg, <<>>, None)
        ELSE IF LongerThanWindow(losses) /\ smoothed.err # "none"
             THEN Outcome(smoothed.err, mk.dirs, fs, fg1, <<>>, None)
        ELSE IF LongerThanWindow(losses) /\ axs.err # "none"
             THEN Outcome(axs.err, mk.dirs, fs,
                          [fg1 EXCEPT ![Len(fg1)] = <<axr>>], <<>>, None)
        ELSE IF sv.err # "none" THEN Outcome(sv.err, mk.dirs, fs, fg2, <<>>, None)
        ELSE Outcome("none", mk.dirs, sv.files, PltClose(fg2), <<>>, None)

(***************************************************************************)
(* Dictionaries keep the order in which their keys were inserted: a dict   *)
(* is [items |-> <<[k |-> key, v |-> value], ...>>] with distinct keys.    *)
(* A number held in a dict is [num |-> n].                                 *)
(***************************************************************************)
Dict(items) == [items |-> items]

IsDict(d) == "items" \in DOMAIN d

IsNum(d) == "num" \in DOMAIN d

Keys(d) == {d.items[i].k : i \in 1..Len(d.items)}

\* d[key]; KeyError when the key is missing, TypeError when d is a number
Has(d, key) == IsDict(d) /\ key \in Keys(d)

Get(d, key) == d.items[CHOOSE i \in 1..Len(d.items) : d.items[i].k = key].v

Lookup(d, key) == IF ~IsDict(d) THEN "TypeError" ELSE IF key \in Keys(d) THEN "none" ELSE "KeyError"

\* d[key] = value: a new key goes to the end, an old one keeps its place
Put(d, key, value) ==
    IF key \in Keys(d)
    THEN Dict([i \in 1..Len(d.items) |->
                 IF d.items[i].k = key THEN [k |-> key, v |-> value] ELSE d.items[i]])
    ELSE Dict(Append(d.items, [k |-> key, v |-> value]))

(***************************************************************************)
(* json.load on a file's content.  A JSON text is a sequence of tokens:    *)
(* [punct |-> "{"], [punct |-> "}"], [punct |-> ":"], [punct |-> ","],     *)
(* [str |-> s] and [num |-> n].  The values are numbers, strings and       *)
(* objects.                                                                *)
(***************************************************************************)
Tok(t, i) == IF i >= 1 /\ i <= Len(t) THEN t[i] ELSE [eof |-> TRUE]

IsPunct(c, s) == "punct" \in DOMAIN c /\ c.punct = s

ParseFail == [ok |-> FALSE, val |-> None, next |-> 0]

RECURSIVE ParseValue(_, _), ParseMembers(_, _, _)
ParseValue(t, i) ==
    LET c == Tok(t, i) IN
    IF "num" \in DOMAIN c THEN [ok |-> TRUE, val |-> [num |-> c.num], next |-> i + 1]
    ELSE IF "str" \in DOMAIN c THEN [ok |-> TRUE, val |-> [str |-> c.str], next |-> i + 1]
    ELSE IF IsPunct(c, "{")
         THEN IF IsPunct(Tok(t, i + 1), "}")
              THEN [ok |-> TRUE, val |-> Dict(<<>>), next |-> i + 2]
              ELSE ParseMembers(t, i + 1, Dict(<<>>))
    ELSE ParseFail

ParseMembers(t, i, obj) ==
    IF "str" \notin DOMAIN Tok(t, i) \/ ~IsPunct(Tok(t, i + 1), ":") THEN ParseFail
    ELSE LET v == ParseValue(t, i + 2) IN
         IF ~v.ok THEN ParseFail
         ELSE IF IsPunct(Tok(t, v.next), ",")
              THEN ParseMembers(t, v.next + 1, Put(obj, Tok(t, i).str, v.val))
         ELSE IF IsPunct(Tok(t, v.next), "}")
              THEN [ok |-> TRUE, val |-> Put(obj, Tok(t, i).str, v.val), next |-> v.next + 1]
         ELSE ParseFail

json_load(content) ==
    IF \E i \in 1..Len(content) : "png" \in DOMAIN content[i]
    THEN [err |-> "UnicodeDecodeError", val |-> None]
    ELSE LET r == ParseValue(content, 1) IN
         IF r.ok /\ r.next = Len(content) + 1
         THEN [err |-> "none", val |-> r.val]
         ELSE [err |-> "JSONDecodeError", val |-> None]

(***************************************************************************)
(* load_results                                                            *)
(***************************************************************************)
\* A faulty variant of load_results, returning None for every file: C5 is
\* tested against it.
LoadNothing(ds, fs, fg, results_file) == Outcome("none", ds, fs, fg, <<>>, None)

load_results(ds, fs, fg, results_file) ==
    LET p == PathOf(results_file)
        parsed == json_load(fs[p])
    IN  IF ~(Str(results_file) # "" /\ Exists(ds, fs, p))
        THEN Outcome("none", ds, fs, fg, <<>>, None)
        ELSE IF IsDir(ds, p) THEN Outcome("IsADirectoryError", ds, fs, fg, <<>>, None)
        ELSE IF parsed.err # "none" THEN Outcome(parsed.err, ds, fs, fg, <<>>, None)
        ELSE Outcome("none", ds, fs, fg, <<>>, [value |-> parsed.val])

(***************************************************************************)
(* Formatting numbers.                                                     *)
(***************************************************************************)
Digits == <<"0", "1", "2", "3", "4", "5", "6", "7", "8", "9">>

RECURSIVE IntStr(_)
IntStr(n) == IF n < 10 THEN Digits[n + 1] ELSE IntStr(n \div 10) \o Digits[(n % 10) + 1]

\* str(n) of an integer
PyStr(n) == IF n < 0 THEN "-" \o IntStr(-n) ELSE IntStr(n)

\* num/den (den > 0) rounded to a whole number, a tie going to the even one
RoundHalfEven(num, den) ==
    LET q == num \div den
        r == num % den
    IN  IF 2 * r > den \/ (2 * r = den /\ q % 2 = 1) THEN q + 1 ELSE q

\* format(num/den, '.1f'), and with plus format(num/den, '+.1f')
FormatF1(num, den, plus) ==
    LET tenths == RoundHalfEven(10 * Abs(num), den)
    IN  (IF num < 0 THEN "-" ELSE IF plus THEN "+" ELSE "")
        \o IntStr(tenths \div 10) \o "." \o IntStr(tenths % 10)

(***************************************************************************)
(* create_summary_table                                                    *)
(***************************************************************************)
TextLine(s) == [line |-> s]

TableHeader ==
    << TextLine("\\begin{table}[h]"),
       TextLine("\\centering"),
       TextLine("\\begin{tabular}{|l|c|c|c|}"),
       TextLine("\\hline"),
       TextLine("\\textbf{Environment} & \\textbf{DQN} & \\textbf{DDQN} & \\textbf{Improvement} \\\\"),
       TextLine("\\hline") >>

TableFooter ==
    << TextLine("\\hline"),
       TextLine("\\end{tabular}"),
       TextLine("\\caption{Performance Comparison: DQN vs DDQN (Mean $\\pm$ Std over 100 episodes)}"),
       TextLine("\\label{tab:results}"),
       TextLine("\\end{table}") >>

\* A faulty variant of Improvement, dividing by dqn_mean itself and not by its
\* absolute value: C2 is tested against it.
ImprovementNoAbs(dqn_mean, ddqn_mean) ==
    IF dqn_mean = 0 THEN [err |-> "ZeroDivisionError", num |-> 0, den |-> 1]
    ELSE IF dqn_mean < 0
         THEN [err |-> "none", num |-> -((ddqn_mean - dqn_mean) * 100), den |-> -dqn_mean]
         ELSE [err |-> "none", num |-> (ddqn_mean - dqn_mean) * 100, den |-> dqn_mean]

\* A faulty variant of Improvement, a zero mean counted as an improvement of
\* zero: C3 is tested against it.
ImprovementZeroGuarded(dqn_mean, ddqn_mean) ==
    IF dqn_mean = 0 THEN [err |-> "none", num |-> 0, den |-> 1]
    ELSE [err |-> "none", num |-> (ddqn_mean - dqn_mean) * 100, den |-> Abs(dqn_mean)]

\* ((ddqn_mean - dqn_mean) / abs(dqn_mean)) * 100
Improvement(dqn_mean, ddqn_mean) ==
    IF Abs(dqn_mean) = 0 THEN [err |-> "ZeroDivisionError", num |-> 0, den |-> 1]
    ELSE [err |-> "none", num |-> (ddqn_mean - dqn_mean) * 100, den |-> Abs(dqn_mean)]

\* The first lookup of data[algo][field] that fails, in the order the loop
\* body makes them: DQN mean, DQN std, DDQN mean, DDQN std.
RowLookupError(data) ==
    LET Step(algo, field) ==
            IF Lookup(data, algo) # "none" THEN Lookup(data, algo)
            ELSE Lookup(Get(data, algo), field)
        order == << <<"DQN", "mean">>, <<"DQN", "std">>, <<"DDQN", "mean">>, <<"DDQN", "std">> >>
        bad == {i \in 1..4 : Step(order[i][1], order[i][2]) # "none"}
    IN  IF bad = {} THEN "none"
        ELSE LET i == CHOOSE j \in bad : \A h \in bad : j <= h
             IN  Step(order[i][1], order[i][2])

\* One pass of the loop body: the row of env_name,
\*   {env_name} & ${dqn_mean:.1f} \pm {dqn_std:.1f}$ & ${ddqn_mean:.1f} \pm {ddqn_std:.1f}$ & {improvement:+.1f}\% \\
\* or the exception it raises.
TableRow(env_name, data) ==
    LET dqn_mean == Get(Get(data, "DQN"), "mean").num
        dqn_std == Get(Get(data, "DQN"), "std").num
        ddqn_mean == Get(Get(data, "DDQN"), "mean").num
        ddqn_std == Get(Get(data, "DDQN"), "std").num
        improvement == Improvement(dqn_mean, ddqn_mean)
    IN  IF RowLookupError(data) # "none" THEN [err |-> RowLookupError(data), row |-> None]
        ELSE IF improvement.err # "none" THEN [err |-> improvement.err, row |-> None]
        ELSE [err |-> "none",
              row |-> [env |-> env_name,
                       dqn |-> FormatF1(dqn_mean, 1, FALSE),
                       dqn_std |-> FormatF1(dqn_std, 1, FALSE),
                       ddqn |-> FormatF1(ddqn_mean, 1, FALSE),
                       ddqn_std |-> FormatF1(ddqn_std, 1, FALSE),
                       improvement |-> FormatF1(improvement.num, improvement.den, TRUE)]]

\* the loop of create_summary_table from item k on: the rows written, and the
\* exception that ended it
RECURSIVE TableRows(_, _, _)
TableRows(items, k, rows) ==
    IF k > Len(items) THEN [err |-> "none", rows |-> rows]
    ELSE LET r == TableRow(items[k].k, items[k].v) IN
         IF r.err # "none" THEN [err |-> r.err, rows |-> rows]
         ELSE TableRows(items, k + 1, Append(rows, r.row))

ConfirmationLine(save_path) == "LaTeX table saved to " \o Str(save_path)

\* A faulty variant of create_summary_table, the rows computed before the file
\* is opened, so that a failing row leaves the file as it was: C9 is tested
\* against it.
CreateTableRowsFirst(ds, fs, fg, results, save_path) ==
    LET p == PathOf(save_path)
        e == OpenError(ds, fs, p)
        body == TableRows(results.items, 1, <<>>)
        fs1 == WriteAt(Truncate(fs, p), p, 0, TableHeader \o body.rows \o TableFooter)
    IN  IF body.err # "none" THEN Outcome(body.err, ds, fs, fg, <<>>, None)
        ELSE IF e # "none" THEN Outcome(e, ds, fs, fg, <<>>, None)
        ELSE Outcome("none", ds, fs1, fg, <<ConfirmationLine(save_path)>>, None)

\* The with statement closes the file, which writes out what was buffered,
\* also when the body raises.
create_summary_table(ds, fs, fg, results, save_path) ==
    LET p == PathOf(save_path)
        e == OpenError(ds, fs, p)
        body == TableRows(results.items, 1, <<>>)
        written == IF body.err # "none" THEN TableHeader \o body.rows
                   ELSE TableHeader \o body.rows \o TableFooter
        fs1 == WriteAt(Truncate(fs, p), p, 0, written)
    IN  IF e # "none" THEN Outcome(e, ds, fs, fg, <<>>, None)
        ELSE IF body.err # "none" THEN Outcome(body.err, ds, fs1, fg, <<>>, None)
        ELSE Outcome("none", ds, fs1, fg, <<ConfirmationLine(save_path)>>, None)

(***************************************************************************)
(* plot_evaluation_stability                                               *)
(***************************************************************************)
StabilityFile(save_dir, env_name, algo_name) ==
    SCat(save_dir, SCat(Slash, SCat(env_name, SCat(Lit("_"),
         SCat(algo_name, Lit("_stability.png"))))))

plot_evaluation_stability(ds, fs, fg, eval_rewards, env_name, algo_name, save_dir) ==
    LET mk == Makedirs(ds, fs, save_dir)
        fg1 == Subplots(fg, 2)
        m == np_mean(eval_rewards)
        sd == np_std(eval_rewards)
        a1 == AxPlotY(NewAxes, Exact(eval_rewards), colors[1], "")
        a2 == Draw(a1, [type |-> "hline", at |-> m, label |-> [text |-> "Mean: ", value |-> m]])
        a3 == Draw(a2, [type |-> "fill_between", x |-> Range(0, Len(eval_rewards)),
                        around |-> m, by |-> sd,
                        label |-> [text |-> "+-1 Std: ", value |-> sd]])
        ax1 == [Labels(a3, "Test Episode", "Reward",
                       Str(algo_name) \o " Stability: " \o Str(env_name))
                    EXCEPT !.legend = TRUE]
        b1 == Draw(NewAxes, [type |-> "hist", data |-> eval_rewards, bins |-> 20,
                             color |-> colors[2]])
        b2 == Draw(b1, [type |-> "vline", at |-> m, label |-> [text |-> "Mean"]])
        ax2 == [Labels(b2, "Reward", "Frequency", "Reward Distribution")
                    EXCEPT !.legend = TRUE]
        fg2 == [fg1 EXCEPT ![Len(fg1)] = <<ax1, ax2>>]
        sv == Savefig(mk.dirs, fs, fg2, StabilityFile(save_dir, env_name, algo_name))
    IN  IF mk.err # "none" THEN Outcome(mk.err, ds, fs, fg, <<>>, None)
        ELSE IF sv.err # "none" THEN Outcome(sv.err, mk.dirs, fs, fg2, <<>>, None)
        ELSE Outcome("none", mk.dirs, sv.files, PltClose(fg2), <<>>, None)

(***************************************************************************)
(* plot_hyperparameter_comparison                                          *)
(***************************************************************************)
HyperparameterFile(save_dir, env_name, param_name) ==
    SCat(save_dir, SCat(Slash, SCat(env_name, SCat(Lit("_"),
         SCat(param_name, Lit("_comparison.png"))))))

\* sorted(results_dict.items()): by key, the keys being distinct numbers
RECURSIVE SortedItems(_)
SortedItems(items) ==
    IF items = <<>> THEN <<>>
    ELSE LET i == CHOOSE j \in 1..Len(items) : \A h \in 1..Len(items) : items[j].k <= items[h].k
         IN  <<items[i]>> \o SortedItems(SubSeq(items, 1, i - 1) \o SubSeq(items, i + 1, Len(items)))

plot_hyperparameter_comparison(ds, fs, fg, results_dict, param_name, env_name, save_dir) ==
    LET mk == Makedirs(ds, fs, save_dir)
        fg1 == Subplots(fg, 1)
        sorted == SortedItems(results_dict.items)
        param_values == [i \in 1..Len(sorted) |-> PyStr(sorted[i].k)]
        mean_rewards == [i \in 1..Len(sorted) |-> np_mean(sorted[i].v)]
        std_rewards == [i \in 1..Len(sorted) |-> np_std(sorted[i].v)]
        a1 == Draw(NewAxes, [type |-> "bar", x |-> Range(0, Len(param_values)),
                             height |-> mean_rewards, yerr |-> std_rewards,
                             color |-> colors[3]])
        ax1 == [Labels(a1, Str(param_name), "Average Reward",
                       "Effect of " \o Str(param_name) \o " on " \o Str(env_name))
                    EXCEPT !.xticklabels = param_values]
        fg2 == [fg1 EXCEPT ![Len(fg1)] = <<ax1>>]
        sv == Savefig(mk.dirs, fs, fg2, HyperparameterFile(save_dir, env_name, param_name))
    IN  IF mk.err # "none" THEN Outcome(mk.err, ds, fs, fg, <<>>, None)
        ELSE IF sv.err # "none" THEN Outcome(sv.err, mk.dirs, fs, fg2, <<>>, None)
        ELSE Outcome("none", mk.dirs, sv.files, PltClose(fg2), <<>>, None)

(***************************************************************************)
(* plot_all_environments_comparison                                        *)
(***************************************************************************)
AllEnvironmentsFile(save_dir) ==
    SCat(save_dir, SCat(Slash, Lit("all_environments_comparison.png")))

\* [results[env][algo][field] for env in environments]: the first lookup
\* that fails ends the comprehension
ColumnError(results, algo, field) ==
    LET E(i) == IF Lookup(results.items[i].v, algo) # "none"
                THEN Lookup(results.items[i].v, algo)
                ELSE Lookup(Get(results.items[i].v, algo), field)
        bad == {i \in 1..Len(results.items) : E(i) # "none"}
    IN  IF bad = {} THEN "none" ELSE E(CHOOSE j \in bad : \A h \in bad : j <= h)

Column(results, algo, field) ==
    [i \in 1..Len(results.items) |-> Get(Get(results.items[i].v, algo), field).num]

plot_all_environments_comparison(ds, fs, fg, results, save_dir) ==
    LET mk == Makedirs(ds, fs, save_dir)
        environments == [i \in 1..Len(results.items) |-> results.items[i].k]
        order == << <<"DQN", "mean">>, <<"DQN", "std">>, <<"DDQN", "mean">>, <<"DDQN", "std">> >>
        bad == {i \in 1..4 : ColumnError(results, order[i][1], order[i][2]) # "none"}
        first == CHOOSE j \in bad : \A h \in bad : j <= h
        fg1 == Subplots(fg, 1)
        dqn_means == Column(results, "DQN", "mean")
        ddqn_means == Column(results, "DDQN", "mean")
        bars1 == [type |-> "bar", x |-> Range(0, Len(environments)), side |-> "left",
                  height |-> dqn_means, yerr |-> Column(results, "DQN", "std"),
                  color |-> colors[1], label |-> "DQN"]
        bars2 == [type |-> "bar", x |-> Range(0, Len(environments)), side |-> "right",
                  height |-> ddqn_means, yerr |-> Column(results, "DDQN", "std"),
                  color |-> colors[2], label |-> "DDQN"]
        autolabel(ax, heights) ==
            [ax EXCEPT !.artists = @ \o
                [i \in 1..Len(heights) |->
                    [type |-> "annotate", text |-> FormatF1(heights[i], 1, FALSE)]]]
        a2 == Draw(Draw(NewAxes, bars1), bars2)
        a3 == [Labels(a2, "Environment", "Average Reward (100 episodes)",
                      "DQN vs DDQN Performance Comparison")
                  EXCEPT !.xticklabels = environments, !.legend = TRUE]
        a4 == autolabel(autolabel(a3, dqn_means), ddqn_means)
        fg2 == [fg1 EXCEPT ![Len(fg1)] = <<a4>>]
        sv == Savefig(mk.dirs, fs, fg2, AllEnvironmentsFile(save_dir))
    IN  IF mk.err # "none" THEN Outcome(mk.err, ds, fs, fg, <<>>, None)
        ELSE IF bad # {}
             THEN Outcome(ColumnError(results, order[first][1], order[first][2]),
                          mk.dirs, fs, fg, <<>>, None)
        ELSE IF sv.err # "none" THEN Outcome(sv.err, mk.dirs, fs, fg2, <<>>, None)
        ELSE Outcome("none", mk.dirs, sv.files, PltClose(fg2), <<>>, None)

(***************************************************************************)
(* A call, as one step of the caller: the function runs to its end, by     *)
(* returning or by raising.                                                *)
(***************************************************************************)
Call(fn, args, target, o) ==
    /\ budget' = budget - 1
    /\ dirs' = o.dirs
    /\ files' = o.files
    /\ figs' = o.figs
    /\ stdout' = stdout \o o.printed
    /\ last' = [fn |-> fn, args |-> args, err |-> o.err, ret |-> o.ret,
                target |-> PathOf(target)]
    /\ writer' = IF o.err = "none" /\ PathOf(target) # <<>>
                 THEN [q \in DOMAIN writer \cup {PathOf(target)} |->
                          IF q = PathOf(target) THEN [fn |-> fn, args |-> args]
                          ELSE writer[q]]
                 ELSE writer
    /\ allOk' = (allOk /\ o.err = "none")
    /\ UNCHANGED <<files0, proc>>

PlotTrainingComparison(dqn_rewards, ddqn_rewards, env_name, save_dir) ==
    /\ budget > 0
    /\ Call("plot_training_comparison",
         [dqn_rewards |-> dqn_rewards, ddqn_rewards |-> ddqn_rewards,
          env_name |-> env_name, save_dir |-> save_dir],
         TrainingComparisonFile(save_dir, env_name),
         plot_training_comparison(dirs, files, figs, dqn_rewards, ddqn_rewards,
                                  env_name, save_dir))

PlotLossCurves(losses, env_name, algo_name, save_dir) ==
    /\ budget > 0
    /\ Call("plot_loss_curves",
         [losses |-> losses, env_name |-> env_name, algo_name |-> algo_name,
          save_dir |-> save_dir],
         LossFile(save_dir, env_name, algo_name),
         plot_loss_curves(dirs, files, figs, losses, env_name, algo_name, save_dir))

PlotEvaluationStability(eval_rewards, env_name, algo_name, save_dir) ==
    /\ budget > 0
    /\ Call("plot_evaluation_stability",
         [eval_rewards |-> eval_rewards, env_name |-> env_name, algo_name |-> algo_name,
          save_dir |-> save_dir],
         StabilityFile(save_dir, env_name, algo_name),
         plot_evaluation_stability(dirs, files, figs, eval_rewards, env_name, algo_name,
                                   save_dir))

PlotHyperparameterComparison(results_dict, param_name, env_name, save_dir) ==
    /\ budget > 0
    /\ Call("plot_hyperparameter_comparison",
         [results_dict |-> results_dict, param_name |-> param_name, env_name |-> env_name,
          save_dir |-> save_dir],
         HyperparameterFile(save_dir, env_name, param_name),
         plot_hyperparameter_comparison(dirs, files, figs, results_dict, param_name,
                                        env_name, save_dir))

PlotAllEnvironmentsComparison(results, save_dir) ==
    /\ budget > 0
    /\ Call("plot_all_environments_comparison",
         [results |-> results, save_dir |-> save_dir],
         AllEnvironmentsFile(save_dir),
         plot_all_environments_comparison(dirs, files, figs, results, save_dir))

CreateSummaryTable(results, save_path) ==
    /\ budget > 0
    /\ Call("create_summary_table",
         [results |-> results, save_path |-> save_path],
         save_path,
         create_summary_table(dirs, files, figs, results, save_path))

LoadResults(results_file) ==
    /\ budget > 0
    /\ Call("load_results", [results_file |-> results_file], Lit(""),
         load_results(dirs, files, figs, results_file))

NoProc == [p \in {} |-> 0]

NoCall == [fn |-> "none", args |-> None, err |-> "none", ret |-> None, target |-> <<>>]

(***************************************************************************)
(* The inputs of the specifications.                                       *)
(***************************************************************************)
Num(n) == [num |-> n]

Record(mean, std) == Dict(<< [k |-> "mean", v |-> Num(mean)], [k |-> "std", v |-> Num(std)] >>)

\* one environment's entry: {'DQN': {'mean', 'std'}, 'DDQN': {'mean', 'std'}}
Data(dqn_mean, dqn_std, ddqn_mean, ddqn_std) ==
    Dict(<< [k |-> "DQN", v |-> Record(dqn_mean, dqn_std)],
            [k |-> "DDQN", v |-> Record(ddqn_mean, ddqn_std)] >>)

\* (DQN mean, DDQN mean): the documented example, a loss, negative means,
\* exact ties of the rounding, equal means, and a DQN mean of zero
MeanPairs ==
    { <<100, 120>>, <<120, 100>>, <<-50, 3>>, <<-50, -80>>, <<3, -50>>,
      <<16, 17>>, <<16, 19>>, <<7, 7>>, <<0, 100>>, <<0, 0>> }

WellFormedData == {Data(mp[1], 5, mp[2], 4) : mp \in MeanPairs}

\* entries with a key missing: no 'DQN', no 'DDQN', no 'mean', no 'std'
MalformedData ==
    { Dict(<< [k |-> "DDQN", v |-> Record(120, 4)] >>),
      Dict(<< [k |-> "DQN", v |-> Record(100, 5)] >>),
      Dict(<< [k |-> "DQN", v |-> Dict(<< [k |-> "std", v |-> Num(5)] >>)],
              [k |-> "DDQN", v |-> Record(120, 4)] >>),
      Dict(<< [k |-> "DQN", v |-> Record(0, 5)],
              [k |-> "DDQN", v |-> Dict(<< [k |-> "mean", v |-> Num(120)] >>)] >>) }

AllEnvNames == <<"CartPole-v1", "Acrobot-v1", "MountainCar-v0", "Pendulum-v1">>

\* the results mappings of up to n environments with entries from the set D
ResultsOver(n, D) ==
    LET names == {AllEnvNames[i] : i \in 1..(IF n < Len(AllEnvNames) THEN n ELSE Len(AllEnvNames))}
        ItemSeqs == UNION {[1..m -> [k : names, v : D]] : m \in 0..n}
    IN  {Dict(it) : it \in {q \in ItemSeqs : \A i, j \in 1..Len(q) : q[i].k = q[j].k => i = j}}

\* json.dump of a value, as the tokens of its text
RECURSIVE JsonDump(_), JsonDumpItems(_)
JsonDump(v) ==
    IF IsNum(v) THEN <<[num |-> v.num]>>
    ELSE IF "str" \in DOMAIN v THEN <<[str |-> v.str]>>
    ELSE <<[punct |-> "{"]>> \o JsonDumpItems(v.items) \o <<[punct |-> "}"]>>

JsonDumpItems(items) ==
    IF items = <<>> THEN <<>>
    ELSE <<[str |-> items[1].k], [punct |-> ":"]>> \o JsonDump(items[1].v)
         \o (IF Len(items) > 1 THEN <<[punct |-> ","]>> ELSE <<>>)
         \o JsonDumpItems(Tail(items))

Stale == <<[stale |-> TRUE]>>

ExampleResults == Dict(<< [k |-> "CartPole-v1", v |-> Data(100, 5, 120, 4)] >>)

SmallResults ==
    { Dict(<<>>),
      ExampleResults,
      Dict(<< [k |-> "CartPole-v1", v |-> Data(100, 5, 120, 4)],
              [k |-> "Acrobot-v1", v |-> Data(0, 5, 3, 4)] >>) }

SaveDirs == {Lit("plots"), <<"out", "figs">>}

EnvNames == {Lit("Env"), <<"ALE", "Pong">>}

ParamNames == {Lit("GAMMA"), Lit("training")}

TablePaths == {Lit("summary_table.txt"), Lit("plots"), <<"plots", "Env_training_comparison.png">>}

ResultsFiles == {Lit("results.json"), Lit("summary_table.txt")}

GammaResults == Dict(<< [k |-> 99, v |-> <<3, 5>>], [k |-> 95, v |-> <<4, 6>>] >>)

\* The working directory before the first call: empty; or with plots/, a
\* results.json that holds a results mapping and an older image; or with a
\* results.json cut short and an older table.
InitialFileSystems ==
    { [dirs |-> {}, files |-> <<>>],
      [dirs |-> {<<"plots">>},
       files |-> (<<"results.json">> :> JsonDump(ExampleResults))
                 @@ (<<"plots", "Env_training_comparison.png">> :> Stale)],
      [dirs |-> {},
       files |-> (<<"results.json">> :> SubSeq(JsonDump(ExampleResults), 1, 5))
                 @@ (<<"summary_table.txt">> :> Stale)] }

(***************************************************************************)
(* The sequential specification: up to MaxCalls calls, one after another.  *)
(***************************************************************************)
Init ==
    /\ \E fs \in InitialFileSystems : dirs = fs.dirs /\ files = fs.files /\ files0 = fs.files
    /\ figs = <<>>
    /\ stdout = <<>>
    /\ last = NoCall
    /\ budget = MaxCalls
    /\ writer = <<>>
    /\ allOk = TRUE
    /\ proc = NoProc

Next ==
    \/ \E dqn \in {<<>>, <<3, 5>>}, env \in EnvNames, dir \in SaveDirs :
          PlotTrainingComparison(dqn, <<4, 6>>, env, dir)
    \/ \E dir \in SaveDirs :
          PlotEvaluationStability(<<3, 5>>, Lit("Env"), Lit("DQN"), dir)
    \/ \E param \in ParamNames :
          PlotHyperparameterComparison(GammaResults, param, Lit("Env"), Lit("plots"))
    \/ \E results \in SmallResults :
          PlotAllEnvironmentsComparison(results, Lit("plots"))
    \/ \E env \in EnvNames :
          PlotLossCurves(<<3, 5>>, env, Lit("DQN"), Lit("plots"))
    \/ \E results \in SmallResults, path \in TablePaths :
          CreateSummaryTable(results, path)
    \/ \E path \in ResultsFiles :
          LoadResults(path)

Spec == Init /\ [][Next]_vars

(***************************************************************************)
(* The table specification: one call of create_summary_table, on a results *)
(* mapping of up to MaxEnvs environments, well-formed or not, over a       *)
(* summary_table.txt that is absent or holds an older table.               *)
(***************************************************************************)
InitTable ==
    /\ dirs = {}
    /\ files \in {<<>>, (<<"summary_table.txt">> :> Stale)}
    /\ files0 = files
    /\ figs = <<>>
    /\ stdout = <<>>
    /\ last = NoCall
    /\ budget = 1
    /\ writer = <<>>
    /\ allOk = TRUE
    /\ proc = NoProc

NextTable ==
    \E results \in ResultsOver(MaxEnvs, WellFormedData \cup MalformedData) :
        CreateSummaryTable(results, Lit("summary_table.txt"))

SpecTable == InitTable /\ [][NextTable]_vars

(***************************************************************************)
(* The smoothing specification: one plotting call on a reward or loss      *)
(* sequence of every length up to MaxLen, from an empty working directory. *)
(***************************************************************************)
\* Episode values of three shapes: a ramp (as range(n)), an alternating
\* sequence, and an irregular one.
Episode(shape, i) ==
    CASE shape = 1 -> i - 1
      [] shape = 2 -> IF i % 2 = 0 THEN i ELSE -i
      [] OTHER -> ((i * i) % 7) - 3

Shapes == 1..3

RewardSeq(n, shape) == [i \in 1..n |-> Episode(shape, i)]


InitSmooth ==
    /\ dirs = {}
    /\ files = <<>>
    /\ figs = <<>>
    /\ stdout = <<>>
    /\ last = NoCall
    /\ budget = 1
    /\ writer = <<>>
    /\ allOk = TRUE
    /\ files0 = <<>>
    /\ proc = NoProc

NextSmooth ==
    \/ \E n \in 0..MaxLen, shape \in Shapes : \E m \in {n, window} :
          PlotTrainingComparison(RewardSeq(n, shape), RewardSeq(m, 4 - shape),
                                 Lit("Env"), Lit("plots"))
    \/ \E n \in 0..MaxLen, shape \in Shapes :
          PlotLossCurves(RewardSeq(n, shape), Lit("Env"), Lit("DQN"), Lit("plots"))

SpecSmooth == InitSmooth /\ [][NextSmooth]_vars

\* The image the latest call saved, and the curves of its (first) axes.
SavedFigure == files[last.target][1].png

Curves == SavedFigure[1].artists

\* y is the moving average of s over w samples: one point for each full
\* window, each the arithmetic mean of the samples of its window.
IsWindowedMean(y, s, w) ==
    /\ Len(y.num) = Len(s) - w + 1
    /\ \A i \in 1..Len(y.num) :
          y.num[i] * w = SumSeq(SubSeq(s, i, i + w - 1)) * y.den

\* C1: for a sequence of at least window = 50 samples, the smoothed curve that
\* plot_training_comparison and plot_loss_curves draw has len - window + 1
\* points, each the arithmetic mean of the window of samples starting there.
C1_SmoothingIsWindowedMean ==
    /\ (last.fn = "plot_training_comparison" /\ last.err = "none") =>
          /\ Len(last.args.dqn_rewards) >= window =>
                IsWindowedMean(Curves[2].y, last.args.dqn_rewards, window)
          /\ Len(last.args.ddqn_rewards) >= window =>
                IsWindowedMean(Curves[4].y, last.args.ddqn_rewards, window)
    /\ (last.fn = "plot_loss_curves" /\ last.err = "none" /\ Len(Curves) = 2) =>
          IsWindowedMean(Curves[2].y, last.args.losses, window)

C1_Witness ==
    /\ last.fn = "plot_training_comparison"
    /\ last.err = "none"
    /\ Len(last.args.dqn_rewards) = window + 2
    /\ last.args.dqn_rewards[3] = -3
    /\ Len(last.args.ddqn_rewards) = window
    /\ Len(Curves[2].y.num) = 3
    /\ Len(Curves[4].y.num) = 1

\* C6 as claimed: plot_loss_curves draws the smoothed curve exactly when
\* len(losses) >= window.
C6_SmoothedIffAtLeastWindow ==
    (last.fn = "plot_loss_curves" /\ last.err = "none") =>
        (Len(Curves) = 2 <=> Len(last.args.losses) >= window)

\* C6 as amended: plot_loss_curves draws the smoothed curve exactly when
\* len(losses) > window, with len - window + 1 points at x = window-1 ..
\* len-1; a sequence of at most window samples is plotted unsmoothed, alone.
\* In both cases one image is saved.
C6_SmoothedIffLongerThanWindow ==
    last.fn = "plot_loss_curves" =>
        /\ last.err = "none"
        /\ DOMAIN files = {last.target}
        /\ Curves[1].y = Exact(last.args.losses)
        /\ IF Len(last.args.losses) > window
           THEN /\ Len(Curves) = 2
                /\ Curves[1].label = "Loss (raw)"
                /\ Curves[2].label = "Loss (smoothed)"
                /\ Len(Curves[2].y.num) = Len(last.args.losses) - window + 1
                /\ Curves[2].x = Range(window - 1, Len(last.args.losses))
           ELSE /\ Len(Curves) = 1
                /\ Curves[1].label = "Loss"

C6_Witness ==
    /\ last.fn = "plot_loss_curves"
    /\ last.err = "none"
    /\ Len(last.args.losses) = window
    /\ Len(Curves) = 1
    /\ last.target \in DOMAIN files

\* C10 as claimed: for every non-empty reward sequence, of any length, the
\* smoothed curve plot_training_comparison draws is never longer than the raw
\* one.
C10_SmoothedNeverLongerThanRaw ==
    (last.fn = "plot_training_comparison" /\ last.err = "none") =>
        /\ Len(Curves[2].y.num) <= Len(last.args.dqn_rewards)
        /\ Len(Curves[4].y.num) <= Len(last.args.ddqn_rewards)

(***************************************************************************)
(* The claims about create_summary_table.                                  *)
(***************************************************************************)
TableFile == files[last.target]

\* the rows of the table file, in the order they were written
TableRowsOf(content) == SelectSeq(content, LAMBDA c : "improvement" \in DOMAIN c)

Mean(data, algo) == Get(Get(data, algo), "mean").num

\* an entry with the four values the loop body reads
WellFormed(data) ==
    /\ IsDict(data)
    /\ \A algo \in {"DQN", "DDQN"} :
          /\ Has(data, algo)
          /\ \A field \in {"mean", "std"} :
                Has(Get(data, algo), field) /\ IsNum(Get(Get(data, algo), field))

\* text is the decimal numeral, with a sign and one decimal, nearest to
\* (ddqn - dqn) / |dqn| * 100; the sign is that of ddqn - dqn
IsImprovementText(text, dqn, ddqn) ==
    LET mag == Abs(ddqn - dqn) * 100 * 10
        den == Abs(dqn)
    IN  \E t \in {mag \div den, mag \div den + 1} :
          /\ 2 * Abs(mag - t * den) <= den
          /\ text = (IF ddqn - dqn < 0 THEN "-" ELSE "+")
                    \o IntStr(t \div 10) \o "." \o IntStr(t % 10)

\* C2: every row create_summary_table writes is the row of the environment at
\* its place in the mapping, and shows (ddqn_mean - dqn_mean) / |dqn_mean| * 100
\* of that environment's means, with an explicit sign (that of ddqn_mean -
\* dqn_mean, also for a negative dqn_mean) and one decimal.
C2_RowShowsImprovement ==
    (last.fn = "create_summary_table" /\ last.target \in DOMAIN files) =>
        LET rows == TableRowsOf(TableFile)
            items == last.args.results.items
        IN  /\ Len(rows) <= Len(items)
            /\ \A i \in 1..Len(rows) :
                  /\ rows[i].env = items[i].k
                  /\ IsImprovementText(rows[i].improvement,
                                       Mean(items[i].v, "DQN"), Mean(items[i].v, "DDQN"))

C2_Witness ==
    /\ last.fn = "create_summary_table"
    /\ last.err = "none"
    /\ Len(TableRowsOf(TableFile)) = 2
    /\ TableRowsOf(TableFile)[1] =
          [env |-> "CartPole-v1", dqn |-> "100.0", dqn_std |-> "5.0",
           ddqn |-> "120.0", ddqn_std |-> "4.0", improvement |-> "+20.0"]
    /\ TableRowsOf(TableFile)[2].dqn = "-50.0"
    /\ TableRowsOf(TableFile)[2].ddqn = "3.0"
    /\ TableRowsOf(TableFile)[2].improvement = "+106.0"

\* the entries up to the k-th are well-formed and the k-th has a DQN mean of zero
ZeroMeanAt(items, k) ==
    /\ \A j \in 1..k : WellFormed(items[j].v)
    /\ Mean(items[k].v, "DQN") = 0

\* C3: when an environment of the mapping has a DQN mean of zero (the entries
\* up to it being well-formed), create_summary_table ends with the
\* ZeroDivisionError of the improvement computation: it does not return, prints
\* no confirmation, and writes no row for that environment.
C3_ZeroMeanRaises ==
    last.fn = "create_summary_table" =>
        \A k \in 1..Len(last.args.results.items) :
            ZeroMeanAt(last.args.results.items, k) =>
                /\ last.target \in DOMAIN files
                /\ last.err = "ZeroDivisionError"
                /\ stdout = <<>>
                /\ \A i \in 1..Len(TableRowsOf(TableFile)) :
                      TableRowsOf(TableFile)[i].env # last.args.results.items[k].k

C3_Witness ==
    /\ last.fn = "create_summary_table"
    /\ Len(last.args.results.items) = 2
    /\ ZeroMeanAt(last.args.results.items, 2)
    /\ Mean(last.args.results.items[1].v, "DQN") # 0
    /\ last.err = "ZeroDivisionError"
    /\ Len(TableRowsOf(TableFile)) = 1

\* an entry the loop body gets through: well-formed, with a DQN mean other than zero
Passes(data) == WellFormed(data) /\ Mean(data, "DQN") # 0

\* C9: when the k-th environment is the first whose entry has a DQN mean of
\* zero or lacks a key, create_summary_table raises and leaves the file with
\* exactly the six header lines and the rows of the k-1 environments before
\* it, without the footer; what the file held before is gone, and the
\* confirmation line is not printed.
C9_PartialTableOnFailure ==
    last.fn = "create_summary_table" =>
        \A k \in 1..Len(last.args.results.items) :
            (/\ ~Passes(last.args.results.items[k].v)
             /\ \A j \in 1..(k - 1) : Passes(last.args.results.items[j].v)) =>
                /\ last.err \in {"ZeroDivisionError", "KeyError"}
                /\ last.target \in DOMAIN files
                /\ files[last.target] # Stale
                /\ Len(TableFile) = 6 + (k - 1)
                /\ SubSeq(TableFile, 1, 6) = TableHeader
                /\ \A j \in 1..(k - 1) :
                      /\ "improvement" \in DOMAIN TableFile[6 + j]
                      /\ TableFile[6 + j].env = last.args.results.items[j].k
                /\ stdout = <<>>

C9_Witness ==
    /\ last.fn = "create_summary_table"
    /\ last.target \in DOMAIN files0
    /\ files0[last.target] = Stale
    /\ last.err = "KeyError"
    /\ Len(last.args.results.items) = 2
    /\ Passes(last.args.results.items[1].v)
    /\ Len(TableFile) = 7
    /\ TableFile[7].env = last.args.results.items[1].k

(***************************************************************************)
(* The claims about sequences of calls.                                    *)
(***************************************************************************)
PlotFunctions ==
    {"plot_training_comparison", "plot_evaluation_stability",
     "plot_hyperparameter_comparison", "plot_all_environments_comparison",
     "plot_loss_curves"}

\* the step is a call of a plotting function
PlotStep == budget' = budget - 1 /\ last'.fn \in PlotFunctions

\* the numeric inputs of the call c are well-formed: no sequence is empty
NumericInputsOk(c) ==
    CASE c.fn = "plot_training_comparison" ->
            c.args.dqn_rewards # <<>> /\ c.args.ddqn_rewards # <<>>
      [] c.fn = "plot_evaluation_stability" -> c.args.eval_rewards # <<>>
      [] c.fn = "plot_loss_curves" -> c.args.losses # <<>>
      [] c.fn = "plot_hyperparameter_comparison" ->
            \A i \in 1..Len(c.args.results_dict.items) : c.args.results_dict.items[i].v # <<>>
      [] OTHER -> \A i \in 1..Len(c.args.results.items) : WellFormed(c.args.results.items[i].v)

\* the environment, algorithm and parameter names of the call c
NamesOf(c) ==
    CASE c.fn = "plot_training_comparison" -> {c.args.env_name}
      [] c.fn = "plot_evaluation_stability" -> {c.args.env_name, c.args.algo_name}
      [] c.fn = "plot_loss_curves" -> {c.args.env_name, c.args.algo_name}
      [] c.fn = "plot_hyperparameter_comparison" -> {c.args.env_name, c.args.param_name}
      [] OTHER -> {}

\* the file name the documentation gives for the call c
DocumentedName(c) ==
    CASE c.fn = "plot_training_comparison" ->
            Str(c.args.env_name) \o "_training_comparison.png"
      [] c.fn = "plot_evaluation_stability" ->
            Str(c.args.env_name) \o "_" \o Str(c.args.algo_name) \o "_stability.png"
      [] c.fn = "plot_loss_curves" ->
            Str(c.args.env_name) \o "_" \o Str(c.args.algo_name) \o "_loss.png"
      [] c.fn = "plot_hyperparameter_comparison" ->
            Str(c.args.env_name) \o "_" \o Str(c.args.param_name) \o "_comparison.png"
      [] OTHER -> "all_environments_comparison.png"

\* save_dir is a directory or absent with no file in its way, and the output
\* path t is not a directory
Unobstructed(c, t) ==
    /\ \A q \in Prefixes(PathOf(c.args.save_dir)) : q \notin DOMAIN files
    /\ t \notin dirs

\* the call returned, save_dir exists, and the file t is the one file written
WroteExactly(c, t) ==
    /\ c.err = "none"
    /\ PathOf(c.args.save_dir) \in dirs'
    /\ dirs \subseteq dirs'
    /\ DOMAIN files' = DOMAIN files \cup {t}
    /\ \A q \in DOMAIN files \ {t} : files'[q] = files[q]
    /\ Len(files'[t]) = 1
    /\ "png" \in DOMAIN files'[t][1]

\* C4 as claimed: a plotting call with well-formed numeric inputs and any
\* environment, algorithm and parameter names ends with save_dir existing and
\* exactly one file written, at the documented path.
C4_OneFileForAnyNames ==
    [][(PlotStep /\ NumericInputsOk(last') /\ Unobstructed(last', last'.target))
          => WroteExactly(last', last'.target)]_vars

\* C4 as amended: a plotting call with well-formed numeric inputs and names
\* that hold no path separator, started with save_dir present or absent (no
\* file in the way of save_dir, no directory at the output path), ends with
\* save_dir existing and exactly one file written, at the documented path
\* save_dir/name; no other file is created or modified.
C4_OneFileForPlainNames ==
    [][(/\ PlotStep
        /\ NumericInputsOk(last')
        /\ \A n \in NamesOf(last') : Len(n) = 1
        /\ Unobstructed(last', PathOf(last'.args.save_dir) \o <<DocumentedName(last')>>))
          => WroteExactly(last', PathOf(last'.args.save_dir) \o <<DocumentedName(last')>>)]_vars

C4_Witness ==
    /\ last.fn = "plot_evaluation_stability"
    /\ last.err = "none"
    /\ budget = MaxCalls - 1
    /\ files0 = <<>>
    /\ <<"out", "figs">> \in dirs
    /\ DOMAIN files = {<<"out", "figs", "Env_DQN_stability.png">>}

\* C5: load_results returns None when the file is missing, the parsed mapping
\* when the file holds the JSON text of a mapping, and fails with the parser's
\* error when the file exists and holds anything else; it changes no file.
C5_LoadResults ==
    /\ [](last.fn = "load_results" =>
            LET p == PathOf(last.args.results_file) IN
            IF p \notin DOMAIN files /\ p \notin dirs
            THEN last.err = "none" /\ last.ret = None
            ELSE IF p \in DOMAIN files /\ files[p] = JsonDump(ExampleResults)
            THEN last.err = "none" /\ last.ret = [value |-> ExampleResults]
            ELSE p \in DOMAIN files => last.err = "JSONDecodeError")
    /\ [][(budget' = budget - 1 /\ last'.fn = "load_results")
             => (files' = files /\ dirs' = dirs)]_vars

C5_Witness ==
    /\ last.fn = "load_results"
    /\ last.args.results_file = Lit("results.json")
    /\ last.err = "none"
    /\ last.ret = [value |-> ExampleResults]
    /\ Get(Get(Get(last.ret.value, "CartPole-v1"), "DDQN"), "mean") = Num(120)

\* What the call c writes to the path t when it runs alone: in a working
\* directory that holds nothing but the directory of t, with no figure open.
Alone(c, t) ==
    LET ds == Prefixes(Parent(t))
        a == c.args
        o == CASE c.fn = "plot_training_comparison" ->
                    plot_training_comparison(ds, <<>>, <<>>, a.dqn_rewards, a.ddqn_rewards,
                                             a.env_name, a.save_dir)
               [] c.fn = "plot_evaluation_stability" ->
                    plot_evaluation_stability(ds, <<>>, <<>>, a.eval_rewards, a.env_name,
                                              a.algo_name, a.save_dir)
               [] c.fn = "plot_hyperparameter_comparison" ->
                    plot_hyperparameter_comparison(ds, <<>>, <<>>, a.results_dict,
                                                   a.param_name, a.env_name, a.save_dir)
               [] c.fn = "plot_all_environments_comparison" ->
                    plot_all_environments_comparison(ds, <<>>, <<>>, a.results, a.save_dir)
               [] c.fn = "plot_loss_curves" ->
                    plot_loss_curves(ds, <<>>, <<>>, a.losses, a.env_name, a.algo_name,
                                     a.save_dir)
               [] OTHER -> create_summary_table(ds, <<>>, <<>>, a.results, a.save_path)
    IN  o.files[t]

\* C7: after calls that all returned normally, every output path holds what
\* the latest call that targeted it writes from its own arguments alone,
\* whatever was called before and whatever the path held; every other file is
\* as it was.  Hence the files do not depend on the order of calls that
\* target different paths, and a call repeated at once with the same
\* arguments changes no file and no directory.
C7_LastWriterAlone ==
    /\ [](allOk =>
            /\ DOMAIN files = DOMAIN files0 \cup DOMAIN writer
            /\ \A p \in DOMAIN files :
                  files[p] = IF p \in DOMAIN writer THEN Alone(writer[p], p) ELSE files0[p])
    /\ [][(/\ budget' = budget - 1
           /\ last.err = "none" /\ last'.err = "none"
           /\ last'.fn = last.fn
           /\ last'.args = last.args)
             => (files' = files /\ dirs' = dirs)]_vars

C7_Witness ==
    /\ allOk
    /\ budget = 0
    /\ stdout = <<"LaTeX table saved to plots/Env_training_comparison.png">>
    /\ last.fn = "plot_hyperparameter_comparison"
    /\ last.target = <<"plots", "Env_training_comparison.png">>
    /\ files0[last.target] = Stale
    /\ files[last.target] = Alone(last, last.target)
    /\ "png" \in DOMAIN files[last.target][1]

(***************************************************************************)
(* The race specification: two processes, each running                     *)
(* create_summary_table on the same save_path, statement by statement.     *)
(* f.write puts a line into the buffer of the process's file object; the   *)
(* buffer is written to the file at the process's own offset when the file *)
(* is closed, or earlier when it is full (how early depends on the widths  *)
(* of the lines, which the model does not keep: any moment is allowed, up  *)
(* to MaxEarlyFlushes times for a process).                                *)
(***************************************************************************)
Procs == {1, 2}

RacePath == Lit("summary_table.txt")

RaceResults ==
    { Dict(<<>>),
      ExampleResults,
      Dict(<< [k |-> "CartPole-v1", v |-> Data(0, 5, 3, 4)] >>) }

InitRace ==
    /\ dirs = {}
    /\ files = <<>>
    /\ files0 = <<>>
    /\ figs = <<>>
    /\ stdout = <<>>
    /\ last = NoCall
    /\ budget = 0
    /\ writer = <<>>
    /\ allOk = TRUE
    /\ proc \in [Procs -> {[pc |-> "open", results |-> r, n |-> 1, buf |-> <<>>, off |-> 0,
                            flushes |-> 0, err |-> "none"] : r \in RaceResults}]

\* A faulty variant of MayOpen, open(save_path, 'w') waiting until no other
\* process holds the file: C8 is tested against it.
OpenWhenFree(p) == \A q \in Procs \ {p} : proc[q].pc \in {"open", "print", "done", "raised"}

\* open(save_path, 'w') takes no lock: it never waits for another process
MayOpen(p) == TRUE

RaceFrame == UNCHANGED <<dirs, figs, last, budget, writer, allOk, files0>>

\* with open(save_path, 'w') as f: the file is created or emptied
ProcOpen(p) ==
    /\ proc[p].pc = "open"
    /\ MayOpen(p)
    /\ files' = Truncate(files, PathOf(RacePath))
    /\ proc' = [proc EXCEPT ![p].pc = "header", ![p].n = 1, ![p].off = 0, ![p].buf = <<>>]
    /\ UNCHANGED stdout
    /\ RaceFrame

\* the six f.write calls of the header
ProcHeader(p) ==
    /\ proc[p].pc = "header"
    /\ proc' = [proc EXCEPT ![p].buf = Append(@, TableHeader[proc[p].n]),
                            ![p].n = IF proc[p].n = Len(TableHeader) THEN 1 ELSE @ + 1,
                            ![p].pc = IF proc[p].n = Len(TableHeader) THEN "loop" ELSE @]
    /\ UNCHANGED <<files, stdout>>
    /\ RaceFrame

\* one pass of the loop over results.items(), or its end
ProcRow(p) ==
    /\ proc[p].pc = "loop"
    /\ LET items == proc[p].results.items
           r == TableRow(items[proc[p].n].k, items[proc[p].n].v)
       IN  proc' = IF proc[p].n > Len(items)
                   THEN [proc EXCEPT ![p].pc = "footer", ![p].n = 1]
                   ELSE IF r.err # "none"
                   THEN [proc EXCEPT ![p].pc = "close", ![p].err = r.err]
                   ELSE [proc EXCEPT ![p].buf = Append(@, r.row), ![p].n = @ + 1]
    /\ UNCHANGED <<files, stdout>>
    /\ RaceFrame

\* the five f.write calls of the footer
ProcFooter(p) ==
    /\ proc[p].pc = "footer"
    /\ proc' = [proc EXCEPT ![p].buf = Append(@, TableFooter[proc[p].n]),
                            ![p].n = IF proc[p].n = Len(TableFooter) THEN 1 ELSE @ + 1,
                            ![p].pc = IF proc[p].n = Len(TableFooter) THEN "close" ELSE @]
    /\ UNCHANGED <<files, stdout>>
    /\ RaceFrame

\* the buffer is full and is written out before the file is closed
ProcFlush(p) ==
    /\ proc[p].pc \in {"header", "loop", "footer"}
    /\ proc[p].buf # <<>>
    /\ proc[p].flushes < MaxEarlyFlushes
    /\ files' = WriteAt(files, PathOf(RacePath), proc[p].off, proc[p].buf)
    /\ proc' = [proc EXCEPT ![p].off = @ + Len(proc[p].buf), ![p].buf = <<>>,
                            ![p].flushes = @ + 1]
    /\ UNCHANGED stdout
    /\ RaceFrame

\* the end of the with block, reached by falling through or by an exception:
\* the buffer is written out and the file closed
ProcClose(p) ==
    /\ proc[p].pc = "close"
    /\ files' = WriteAt(files, PathOf(RacePath), proc[p].off, proc[p].buf)
    /\ proc' = [proc EXCEPT ![p].off = @ + Len(proc[p].buf), ![p].buf = <<>>,
                            ![p].pc = IF proc[p].err = "none" THEN "print" ELSE "raised"]
    /\ UNCHANGED stdout
    /\ RaceFrame

\* print(f"LaTeX table saved to {save_path}")
ProcPrint(p) ==
    /\ proc[p].pc = "print"
    /\ stdout' = Append(stdout, ConfirmationLine(RacePath))
    /\ proc' = [proc EXCEPT ![p].pc = "done"]
    /\ UNCHANGED files
    /\ RaceFrame

\* the next statement of process p
ProcStep(p) ==
    ProcOpen(p) \/ ProcHeader(p) \/ ProcRow(p) \/ ProcFooter(p) \/ ProcClose(p) \/ ProcPrint(p)

NextRace ==
    \/ \E p \in Procs : ProcOpen(p)
    \/ \E p \in Procs : ProcHeader(p)
    \/ \E p \in Procs : ProcRow(p)
    \/ \E p \in Procs : ProcFooter(p)
    \/ \E p \in Procs : ProcFlush(p)
    \/ \E p \in Procs : ProcClose(p)
    \/ \E p \in Procs : ProcPrint(p)

SpecRace == InitRace /\ [][NextRace]_vars

\* the complete table of a results mapping
CompleteTable(results) == TableHeader \o TableRows(results.items, 1, <<>>).rows \o TableFooter

\* C8: two create_summary_table calls of independent processes on one
\* save_path are not coordinated: a process that has not finished can always
\* take its next step, whatever the other one is doing, each empties the file
\* on open and writes its own table from the start of the file, and when both
\* have returned both have printed their confirmation line.  (The witness is
\* the interleaving the claim names: both returned, and the file is the
\* complete table of neither.)
C8_NoCoordination ==
    /\ \A p \in Procs : proc[p].pc \notin {"done", "raised"} => ENABLED ProcStep(p)
    /\ \A p \in Procs : proc[p].pc # "open" => PathOf(RacePath) \in DOMAIN files
    /\ (\A p \in Procs : proc[p].pc = "done") =>
          stdout = <<ConfirmationLine(RacePath), ConfirmationLine(RacePath)>>

C8_Witness ==
    /\ \A p \in Procs : proc[p].pc = "done" /\ proc[p].flushes = 0
    /\ stdout = <<ConfirmationLine(RacePath), ConfirmationLine(RacePath)>>
    /\ \A p \in Procs : files[PathOf(RacePath)] # CompleteTable(proc[p].results)

====
